---- MODULE Spec2Model ----
(***************************************************************************)
(* Model of project_hours_analyzer.py: quarter-hour rounding, the per-day  *)
(* session builder and the session merger of analyze_all_projects, the     *)
(* aggregation done by print_project_summary and                           *)
(* calculate_daily_project_hours, the reading and conversion of the        *)
(* timestamp column, and extract_project_names.                            *)
(*                                                                         *)
(* Representation.  A naive local datetime is an integer number of         *)
(* milliseconds since 00:00:00.000 of day 0 (the resolution of the values  *)
(* pd.to_datetime(..., unit='ms') produces from integer epochs).  A date   *)
(* is a day number, a time of day is a number of milliseconds since        *)
(* midnight.  A duration in hours (a Python float) is represented by the   *)
(* same duration in milliseconds, so 0.25 h is 900000 and 0.01 h is 36000. *)
(* time_multiplier is a whole number, so that every nominal end is a whole *)
(* number of milliseconds; on such values the float arithmetic of the      *)
(* source is exact up to the microsecond timedelta keeps.                  *)
(***************************************************************************)
EXTENDS Integers, Sequences, FiniteSets, TLC

VARIABLES
    pc,                 \* position of the run
    cfg,                \* keyword arguments of analyze_all_projects
    events,             \* rows of df after line 203: [project, datetime]
    project_counts,     \* Counter(df['project'].values)
    project_order,      \* insertion order of the keys of project_counts
    significant_projects, \* keys of significant_projects, in dict order
    todo,               \* projects the loop of line 214 has not reached
    project_name,       \* loop variable of line 214
    dates_todo,         \* groups of line 222 not yet processed
    timestamps,         \* local of line 223, last group processed
    sessions,           \* list built by lines 219-323 (line 332 rebinds the
                        \* name to the merged list, kept in project_sessions)
    daily_hours,        \* local of line 218
    project_hours,      \* result dict of line 211
    project_sessions,   \* result dict of line 212
    project_totals,     \* local of print_project_summary
    sorted_projects,    \* local of print_project_summary
    largest_project,    \* local of calculate_daily_project_hours
    dt,                 \* argument of round_to_quarter_hour
    rounded_dt,         \* result of round_to_quarter_hour
    merged_once,        \* merge_overlapping_sessions(sessions)
    merged_twice,       \* merge_overlapping_sessions(merged_once)
    csv_rows,           \* rows of the CSV file: [timestamp, project]
    df,                 \* rows of df after lines 166-169
    unit,               \* unit passed to pd.to_datetime
    utc,                \* df['datetime'] as pd.to_datetime returns it
    data_link,          \* str(row.get('dataLink', '')) of extract_project_names
    blurb,              \* str(row.get('blurb', '')) of extract_project_names
    project_mapping,    \* project_mapping[idx] of extract_project_names
    sorted_intervals,   \* session_intervals of merge_overlapping_sessions
    next_index,         \* index of next_session in session_intervals
    current_interval,   \* current of merge_overlapping_sessions
    merged_intervals    \* merged of merge_overlapping_sessions

vars == <<pc, cfg, events, project_counts, project_order,
          significant_projects, todo, project_name, dates_todo, timestamps,
          sessions, daily_hours, project_hours, project_sessions,
          project_totals, sorted_projects, largest_project, dt, rounded_dt,
          merged_once, merged_twice, csv_rows, df, unit, utc, data_link, blurb,
          project_mapping, sorted_intervals, next_index, current_interval,
          merged_intervals>>

\* the variables of the timestamp conversion, of extract_project_names and
\* of the scan of merge_overlapping_sessions
load_vars == <<csv_rows, df, unit, utc>>
name_vars == <<data_link, blurb, project_mapping>>
scan_vars == <<sorted_intervals, next_index, current_interval,
               merged_intervals>>

----------------------------------------------------------------------------
(* Units *)

SecondMs == 1000
MinuteMs == 60 * SecondMs
QuarterMs == 15 * MinuteMs
HourMs == 60 * MinuteMs
DayMs == 24 * HourMs
SecondsPerDay == 24 * 60 * 60
HundredthHourMs == HourMs \div 100

NoValue == "none"
Unknown_Project == "Unknown_Project"

----------------------------------------------------------------------------
(* Python primitives *)

\* variant: ties go up, as int(x + 0.5) would round
RoundHalfUp(n, d) ==
    LET q == n \div d
        r == n % d
    IN  IF 2 * r < d THEN q ELSE q + 1

\* round(n / d) for n >= 0, d > 0: nearest integer, ties to the even one
RoundHalfEven(n, d) ==
    LET q == n \div d
        r == n % d
    IN  IF 2 * r < d THEN q
        ELSE IF 2 * r > d THEN q + 1
        ELSE IF q % 2 = 0 THEN q ELSE q + 1

\* round(x, 2) of a duration x in hours (x may be negative)
Round2(x) ==
    IF x >= 0 THEN RoundHalfEven(x, HundredthHourMs) * HundredthHourMs
    ELSE 0 - RoundHalfEven(0 - x, HundredthHourMs) * HundredthHourMs

\* datetime.date() and datetime.time()
DateOf(d) == d \div DayMs
TimeOf(d) == d % DayMs

\* datetime.combine(date, time)
Combine(date, time) == date * DayMs + time

\* variant: the second argument, whatever the first
Max_Second(a, b) == b

\* max(a, b)
Max(a, b) == IF a >= b THEN a ELSE b

RECURSIVE SumSeq(_)
SumSeq(s) == IF s = <<>> THEN 0 ELSE Head(s) + SumSeq(Tail(s))

\* stable ascending insertion of the pair x = <<key, value>> into the sequence
\* s of pairs sorted by key: x goes after the pairs of equal key
RECURSIVE InsertByKey(_, _)
InsertByKey(x, s) ==
    IF s = <<>> THEN <<x>>
    ELSE IF x[1] < Head(s)[1] THEN <<x>> \o s
    ELSE <<Head(s)>> \o InsertByKey(x, Tail(s))

RECURSIVE SortPairs(_)
SortPairs(s) ==
    IF s = <<>> THEN <<>>
    ELSE InsertByKey(s[Len(s)], SortPairs(SubSeq(s, 1, Len(s) - 1)))

\* list.sort(key=...) / sorted(...) / sort_values: stable and ascending;
\* keys[k] is the key of s[k]
SortByKey(s, keys) ==
    LET sorted_pairs == SortPairs([k \in 1..Len(s) |-> <<keys[k], s[k]>>])
    IN  [k \in 1..Len(s) |-> sorted_pairs[k][2]]

----------------------------------------------------------------------------
(* Timestamp normalizer *)

\* variant: the rounded minute replaces the minute but the seconds stay
round_to_quarter_hour_KeepSeconds(d) ==
    LET within_hour == d % HourMs
        quarter_hours == RoundHalfEven(within_hour, QuarterMs) * 15
        hour_start == d - within_hour
        kept == d % MinuteMs
    IN  IF quarter_hours >= 60
        THEN LET moved == d + HourMs
             IN  moved - (moved % HourMs) + kept
        ELSE hour_start + quarter_hours * MinuteMs + kept

\* variant: minute 60 becomes minute 0 without advancing the hour
round_to_quarter_hour_NoCarry(d) ==
    LET within_hour == d % HourMs
        quarter_hours == RoundHalfEven(within_hour, QuarterMs) * 15
        hour_start == d - within_hour
    IN  IF quarter_hours >= 60
        THEN hour_start
        ELSE hour_start + quarter_hours * MinuteMs

round_to_quarter_hour(d) ==
    LET within_hour == d % HourMs        \* minute, second, microsecond
        quarter_hours == RoundHalfEven(within_hour, QuarterMs) * 15
        hour_start == d - within_hour
    IN  IF quarter_hours >= 60
        THEN LET moved == d + HourMs             \* dt + timedelta(hours=1)
             IN  moved - (moved % HourMs)        \* replace(minute=0, ...)
        ELSE hour_start + quarter_hours * MinuteMs

\* default of the min_hours parameter, 0.25
DefaultMinHours == HourMs \div 4

ensure_minimum_session_duration(start_dt, end_dt, min_hours) ==
    LET duration_hours == end_dt - start_dt
    IN  IF duration_hours < min_hours
        THEN <<start_dt, round_to_quarter_hour(start_dt + min_hours)>>
        ELSE <<start_dt, end_dt>>

----------------------------------------------------------------------------
(* Session builder *)

\* variant: the hours are those of the duration before rounding
MakeSession_NominalHours(start_time, end_time) ==
    LET rounded_start == round_to_quarter_hour(start_time)
        rounded_end == round_to_quarter_hour(end_time)
        ensured == ensure_minimum_session_duration(rounded_start, rounded_end,
                                                   DefaultMinHours)
        actual_hours == end_time - start_time
    IN  [session |-> [start_date |-> DateOf(ensured[1]),
                      start_time |-> TimeOf(ensured[1]),
                      end_date |-> DateOf(ensured[2]),
                      end_time |-> TimeOf(ensured[2]),
                      hours |-> Round2(actual_hours)],
         actual_hours |-> actual_hours]

\* lines 230-250, repeated at 271-291 and 303-323: round both endpoints,
\* enforce the floor, recompute the hours, build the session dict.
\* actual_hours is returned with the dict because line 251 stores it.
MakeSession(start_time, end_time) ==
    LET rounded_start == round_to_quarter_hour(start_time)
        rounded_end == round_to_quarter_hour(end_time)
        ensured == ensure_minimum_session_duration(rounded_start, rounded_end,
                                                   DefaultMinHours)
        actual_hours == ensured[2] - ensured[1]
    IN  [session |-> [start_date |-> DateOf(ensured[1]),
                      start_time |-> TimeOf(ensured[1]),
                      end_date |-> DateOf(ensured[2]),
                      end_time |-> TimeOf(ensured[2]),
                      hours |-> Round2(actual_hours)],
         actual_hours |-> actual_hours]

\* variant: a gap equal to the threshold already splits the session
SameSession_Strict(time_diff, c) == time_diff < c.max_session_gap_hours

\* time_diff <= max_session_gap_hours, line 261
SameSession(time_diff, c) == time_diff <= c.max_session_gap_hours

\* variant: a newly opened session starts with no elapsed time
RECURSIVE SessionLoop_ResetZero(_, _, _, _, _, _)
SessionLoop_ResetZero(ts, i, current_session_start, daily_session_time, acc, c) ==
    IF i > Len(ts)
    THEN [start |-> current_session_start, time |-> daily_session_time,
          appended |-> acc]
    ELSE LET time_diff == ts[i] - ts[i - 1]
         IN  IF SameSession(time_diff, c)
             THEN SessionLoop_ResetZero(ts, i + 1, current_session_start,
                                        daily_session_time + time_diff, acc, c)
             ELSE LET session_duration ==
                          (daily_session_time + c.min_activity_hours)
                              * c.time_multiplier
                      session_end_time ==
                          current_session_start + session_duration
                  IN  SessionLoop_ResetZero(ts, i + 1, ts[i], 0,
                          Append(acc, MakeSession(current_session_start,
                                                  session_end_time).session),
                          c)

\* the loop of lines 258-296; acc is the list of sessions it has appended
RECURSIVE SessionLoop(_, _, _, _, _, _)
SessionLoop(ts, i, current_session_start, daily_session_time, acc, c) ==
    IF i > Len(ts)
    THEN [start |-> current_session_start, time |-> daily_session_time,
          appended |-> acc]
    ELSE LET time_diff == ts[i] - ts[i - 1]
         IN  IF SameSession(time_diff, c)
             THEN SessionLoop(ts, i + 1, current_session_start,
                              daily_session_time + time_diff, acc, c)
             ELSE LET session_duration ==
                          (daily_session_time + c.min_activity_hours)
                              * c.time_multiplier
                      session_end_time ==
                          current_session_start + session_duration
                  IN  SessionLoop(ts, i + 1, ts[i], c.min_activity_hours,
                          Append(acc, MakeSession(current_session_start,
                                                  session_end_time).session),
                          c)

\* sum(session['hours'] for session in sessions if session['start_date'] == date)
RECURSIVE HoursStartingOn(_, _)
HoursStartingOn(ss, date) ==
    IF ss = <<>> THEN 0
    ELSE (IF Head(ss).start_date = date THEN Head(ss).hours ELSE 0)
         + HoursStartingOn(Tail(ss), date)

\* body of the loop of line 222 for one date group: the sessions list and
\* the daily_hours dict after the group has been processed
BuildGroup(ts, date, ss, dh, c) ==
    IF Len(ts) = 1
    THEN LET start_time == ts[1]
             end_time == start_time + c.min_activity_hours * c.time_multiplier
             made == MakeSession(start_time, end_time)
         IN  [sessions |-> Append(ss, made.session),
              daily_hours |-> [d \in DOMAIN dh \cup {date} |->
                                  IF d = date THEN made.actual_hours
                                  ELSE dh[d]]]
    ELSE LET loop == SessionLoop(ts, 2, ts[1], 0, <<>>, c)
             final_session_duration ==
                 (loop.time + c.session_end_buffer) * c.time_multiplier
             final_session_end == loop.start + final_session_duration
             all == ss \o loop.appended
                    \o <<MakeSession(loop.start, final_session_end).session>>
         IN  [sessions |-> all,
              daily_hours |-> [d \in DOMAIN dh \cup {date} |->
                                  IF d = date THEN HoursStartingOn(all, date)
                                  ELSE dh[d]]]

----------------------------------------------------------------------------
(* Session merger *)

\* lines 352-360: the interval of a session dict
ToInterval(session) ==
    [start_dt |-> Combine(session.start_date, session.start_time),
     end_dt |-> Combine(session.end_date, session.end_time)]

\* variant: a session starting exactly 15 minutes later is not merged
Adjacent_Strict(current, next_session) ==
    next_session.start_dt < current.end_dt + 15 * MinuteMs

\* next_session['start_dt'] <= current['end_dt'] + timedelta(minutes=15)
Adjacent(current, next_session) ==
    next_session.start_dt <= current.end_dt + 15 * MinuteMs

\* the loop of lines 369-377 followed by line 380
RECURSIVE MergeScan(_, _, _, _)
MergeScan(session_intervals, i, current, merged) ==
    IF i > Len(session_intervals) THEN Append(merged, current)
    ELSE LET next_session == session_intervals[i]
         IN  IF Adjacent(current, next_session)
             THEN MergeScan(session_intervals, i + 1,
                            [current EXCEPT !.end_dt =
                                Max(current.end_dt, next_session.end_dt)],
                            merged)
             ELSE MergeScan(session_intervals, i + 1, next_session,
                            Append(merged, current))

\* variant: end_date is taken from start_dt
FinalSession_StartDate(interval) ==
    [start_date |-> DateOf(interval.start_dt),
     start_time |-> TimeOf(interval.start_dt),
     end_date |-> DateOf(interval.start_dt),
     end_time |-> TimeOf(interval.end_dt),
     hours |-> Round2(interval.end_dt - interval.start_dt)]

\* lines 385-394: the session dict of a merged interval
FinalSession(interval) ==
    [start_date |-> DateOf(interval.start_dt),
     start_time |-> TimeOf(interval.start_dt),
     end_date |-> DateOf(interval.end_dt),
     end_time |-> TimeOf(interval.end_dt),
     hours |-> Round2(interval.end_dt - interval.start_dt)]

merge_overlapping_sessions(ss) ==
    IF ss = <<>> THEN ss
    ELSE LET session_intervals ==
                 LET unsorted == [k \in 1..Len(ss) |-> ToInterval(ss[k])]
                 IN  SortByKey(unsorted,
                               [k \in 1..Len(ss) |-> unsorted[k].start_dt])
             merged == MergeScan(session_intervals, 2, session_intervals[1],
                                 <<>>)
         IN  [k \in 1..Len(merged) |-> FinalSession(merged[k])]

----------------------------------------------------------------------------
(* Inputs *)

MaxEvents == 3

Projects == {"A", "B", Unknown_Project}

\* local times of day of the events: 00:10:00, 21:52:30, 23:52:30, 23:55:00
\* (a plain time, two rounding ties exactly 2 h apart, and a time that rounds
\* into the next date)
TimesOfDay == {10 * MinuteMs,
               21 * HourMs + 52 * MinuteMs + 30 * SecondMs,
               23 * HourMs + 52 * MinuteMs + 30 * SecondMs,
               23 * HourMs + 55 * MinuteMs}

\* local datetimes of the events: the four times of day 0, and the first
\* and the last of them on day 1
EventTimes ==
    {Combine(0, tod) : tod \in TimesOfDay}
        \cup {Combine(1, 10 * MinuteMs), Combine(1, 23 * HourMs + 55 * MinuteMs)}

Rows == [project : Projects, datetime : EventTimes]

\* defaults of the keyword arguments, lines 126-128
DefaultConfig ==
    [time_multiplier |-> 1, min_activity_hours |-> 900000,
     max_session_gap_hours |-> 7200000, session_end_buffer |-> 900000,
     min_activities |-> 3]

\* a caller's settings: multiplier 2, floor 0.5 h, gap 0.25 h, buffer 0.5 h,
\* one activity
OtherConfig ==
    [time_multiplier |-> 2, min_activity_hours |-> 1800000,
     max_session_gap_hours |-> 900000, session_end_buffer |-> 1800000,
     min_activities |-> 1]

Configs == {DefaultConfig, OtherConfig}

EmptyMap == [k \in {} |-> 0]

Idle ==
    /\ project_counts = EmptyMap
    /\ project_order = <<>>
    /\ significant_projects = <<>>
    /\ todo = <<>>
    /\ project_name = NoValue
    /\ dates_todo = <<>>
    /\ timestamps = <<>>
    /\ daily_hours = EmptyMap
    /\ project_hours = EmptyMap
    /\ project_sessions = EmptyMap
    /\ project_totals = EmptyMap
    /\ sorted_projects = <<>>
    /\ largest_project = NoValue
    /\ rounded_dt = NoValue
    /\ merged_once = NoValue
    /\ merged_twice = NoValue

\* the same for load_vars, name_vars and scan_vars
IdleLoad ==
    csv_rows = NoValue /\ df = NoValue /\ unit = NoValue /\ utc = NoValue
IdleNames == data_link = NoValue /\ blurb = NoValue /\ project_mapping = NoValue
IdleScan ==
    /\ sorted_intervals = NoValue
    /\ next_index = NoValue
    /\ current_interval = NoValue
    /\ merged_intervals = NoValue

Init ==
    /\ pc = "start"
    /\ cfg \in Configs
    /\ events \in UNION {[1..n -> Rows] : n \in 0..MaxEvents}
    /\ sessions = <<>>
    /\ dt = NoValue
    /\ Idle
    /\ IdleLoad
    /\ IdleNames
    /\ IdleScan

----------------------------------------------------------------------------
(* analyze_all_projects *)

\* Counter(values): the keys in order of first occurrence
RECURSIVE FirstOccurrences(_, _)
FirstOccurrences(values, seen) ==
    IF values = <<>> THEN seen
    ELSE IF \E k \in 1..Len(seen) : seen[k] = Head(values)
         THEN FirstOccurrences(Tail(values), seen)
         ELSE FirstOccurrences(Tail(values), Append(seen, Head(values)))

CountOf(rows, proj) == Cardinality({k \in 1..Len(rows) : rows[k].project = proj})

\* variant: the sentinel is not excluded
IsSignificant_CountOnly(proj, count, c) == count >= c.min_activities

\* the condition of the dict comprehension of lines 207-208
IsSignificant(proj, count, c) ==
    count >= c.min_activities /\ proj # Unknown_Project

RECURSIVE FilterSignificant(_, _, _)
FilterSignificant(order, counts, c) ==
    IF order = <<>> THEN <<>>
    ELSE (IF IsSignificant(Head(order), counts[Head(order)], c)
          THEN <<Head(order)>> ELSE <<>>)
         \o FilterSignificant(Tail(order), counts, c)

\* lines 205-212
CountActivities ==
    /\ pc = "start"
    /\ LET order == FirstOccurrences([k \in 1..Len(events) |-> events[k].project],
                                     <<>>)
           counts == [p \in {order[k] : k \in 1..Len(order)} |-> CountOf(events, p)]
           significant == FilterSignificant(order, counts, cfg)
       IN  /\ project_order' = order
           /\ project_counts' = counts
           /\ significant_projects' = significant
           /\ todo' = significant
    /\ project_hours' = EmptyMap
    /\ project_sessions' = EmptyMap
    /\ pc' = "projects"
    /\ UNCHANGED <<cfg, events, project_name, dates_todo, timestamps, sessions,
                   daily_hours, project_totals, sorted_projects,
                   largest_project, dt, rounded_dt, merged_once, merged_twice>>
    /\ UNCHANGED <<load_vars, name_vars, scan_vars>>

\* the datetime column of df[df['project'] == proj], in file order
RECURSIVE ProjectDatetimes(_, _)
ProjectDatetimes(rows, proj) ==
    IF rows = <<>> THEN <<>>
    ELSE (IF Head(rows).project = proj THEN <<Head(rows).datetime>> ELSE <<>>)
         \o ProjectDatetimes(Tail(rows), proj)

\* sorted(list): ascending
SortedList(s) == SortByKey(s, s)

\* the group keys of project_df.groupby('date'), ascending and distinct
RECURSIVE Distinct(_)
Distinct(s) ==
    IF Len(s) <= 1 THEN s
    ELSE IF s[1] = s[2] THEN Distinct(Tail(s))
    ELSE <<s[1]>> \o Distinct(Tail(s))

GroupDates(times) ==
    Distinct(SortedList([k \in 1..Len(times) |-> DateOf(times[k])]))

\* variant: the session list is created once, before the loop of line 214
NextProject_KeepSessions ==
    /\ pc = "projects"
    /\ todo # <<>>
    /\ project_name' = Head(todo)
    /\ todo' = Tail(todo)
    /\ daily_hours' = EmptyMap
    /\ dates_todo' = GroupDates(ProjectDatetimes(events, Head(todo)))
    /\ pc' = "groups"
    /\ UNCHANGED <<cfg, events, project_counts, project_order,
                   significant_projects, timestamps, sessions, project_hours,
                   project_sessions, project_totals, sorted_projects,
                   largest_project, dt, rounded_dt, merged_once, merged_twice>>
    /\ UNCHANGED <<load_vars, name_vars, scan_vars>>

\* lines 214-219
NextProject ==
    /\ pc = "projects"
    /\ todo # <<>>
    /\ project_name' = Head(todo)
    /\ todo' = Tail(todo)
    /\ daily_hours' = EmptyMap
    /\ sessions' = <<>>
    /\ dates_todo' = GroupDates(ProjectDatetimes(events, Head(todo)))
    /\ pc' = "groups"
    /\ UNCHANGED <<cfg, events, project_counts, project_order,
                   significant_projects, timestamps, project_hours,
                   project_sessions, project_totals, sorted_projects,
                   largest_project, dt, rounded_dt, merged_once, merged_twice>>
    /\ UNCHANGED <<load_vars, name_vars, scan_vars>>

RECURSIVE OnDate(_, _)
OnDate(times, date) ==
    IF times = <<>> THEN <<>>
    ELSE (IF DateOf(Head(times)) = date THEN <<Head(times)>> ELSE <<>>)
         \o OnDate(Tail(times), date)

\* one iteration of the loop of line 222, lines 223-327
BuildDay ==
    /\ pc = "groups"
    /\ dates_todo # <<>>
    /\ LET date == Head(dates_todo)
           ts == SortedList(OnDate(ProjectDatetimes(events, project_name), date))
           built == BuildGroup(ts, date, sessions, daily_hours, cfg)
       IN  /\ timestamps' = ts
           /\ sessions' = built.sessions
           /\ daily_hours' = built.daily_hours
    /\ dates_todo' = Tail(dates_todo)
    /\ UNCHANGED <<pc, cfg, events, project_counts, project_order,
                   significant_projects, todo, project_name, project_hours,
                   project_sessions, project_totals, sorted_projects,
                   largest_project, dt, rounded_dt, merged_once, merged_twice>>
    /\ UNCHANGED <<load_vars, name_vars, scan_vars>>

MapPut(m, k, v) == [x \in DOMAIN m \cup {k} |-> IF x = k THEN v ELSE m[x]]

\* lines 329-334
StoreProject ==
    /\ pc = "groups"
    /\ dates_todo = <<>>
    /\ project_hours' = MapPut(project_hours, project_name, daily_hours)
    /\ project_sessions' = MapPut(project_sessions, project_name,
                                  merge_overlapping_sessions(sessions))
    /\ pc' = "projects"
    /\ UNCHANGED <<cfg, events, project_counts, project_order,
                   significant_projects, todo, project_name, dates_todo,
                   timestamps, sessions, daily_hours, project_totals, sorted_projects,
                   largest_project, dt, rounded_dt, merged_once, merged_twice>>
    /\ UNCHANGED <<load_vars, name_vars, scan_vars>>

\* line 336
Return ==
    /\ pc = "projects"
    /\ todo = <<>>
    /\ pc' = "returned"
    /\ UNCHANGED <<cfg, events, project_counts, project_order,
                   significant_projects, todo, project_name, dates_todo,
                   timestamps, sessions, daily_hours, project_hours,
                   project_sessions, project_totals, sorted_projects,
                   largest_project, dt, rounded_dt, merged_once, merged_twice>>
    /\ UNCHANGED <<load_vars, name_vars, scan_vars>>

----------------------------------------------------------------------------
(* Aggregator *)

\* sum(daily_hours.values())
RECURSIVE SumValues(_, _)
SumValues(m, keys) ==
    IF keys = {} THEN 0
    ELSE LET k == CHOOSE x \in keys : TRUE
         IN  m[k] + SumValues(m, keys \ {k})

TotalHours(dh) == SumValues(dh, DOMAIN dh)

\* lines 601-609; avg_hours is the exact quotient, kept as a fraction
ProjectTotal(dh, activity_count) ==
    LET total_hours == TotalHours(dh)
        active_days == Cardinality(DOMAIN dh)
    IN  [total_hours |-> total_hours,
         active_days |-> active_days,
         avg_hours |-> IF active_days > 0
                       THEN [num |-> total_hours, den |-> active_days]
                       ELSE [num |-> 0, den |-> 1],
         activity_count |-> activity_count]

\* variant: ascending sort then reversal, which also reverses equal totals
RankByTotal_Reversed(order, totals) ==
    LET ascending ==
            SortByKey(order, [k \in 1..Len(order) |-> totals[order[k]].total_hours])
    IN  [k \in 1..Len(order) |-> ascending[Len(order) + 1 - k]]

\* sorted(project_totals.items(), key=total_hours, reverse=True): the keys,
\* by descending total, equal totals in dict order
RankByTotal(order, totals) ==
    SortByKey(order, [k \in 1..Len(order) |-> 0 - totals[order[k]].total_hours])

\* print_project_summary, lines 587-613 (the printing is not modelled)
PrintProjectSummary ==
    /\ pc = "returned"
    /\ IF DOMAIN project_hours = {}
       THEN UNCHANGED <<project_totals, sorted_projects>>
       ELSE /\ project_totals' =
                   [p \in DOMAIN project_hours |->
                       ProjectTotal(project_hours[p], project_counts[p])]
            /\ sorted_projects' = RankByTotal(significant_projects, project_totals')
    /\ pc' = "done"
    /\ UNCHANGED <<cfg, events, project_counts, project_order,
                   significant_projects, todo, project_name, dates_todo,
                   timestamps, sessions, daily_hours, project_hours,
                   project_sessions, largest_project, dt, rounded_dt,
                   merged_once, merged_twice>>
    /\ UNCHANGED <<load_vars, name_vars, scan_vars>>

\* max(keys, key=...): the first key, in dict order, of maximal value
RECURSIVE FirstMax(_, _, _)
FirstMax(order, value, best) ==
    IF order = <<>> THEN best
    ELSE IF value[Head(order)] > value[best]
         THEN FirstMax(Tail(order), value, Head(order))
         ELSE FirstMax(Tail(order), value, best)

\* calculate_daily_project_hours with project_name=None, lines 416-426; it
\* calls analyze_all_projects without min_activities, hence with the default
SelectLargestProject ==
    /\ pc = "returned"
    /\ cfg.min_activities = DefaultConfig.min_activities
    /\ IF DOMAIN project_hours # {}
       THEN largest_project' =
                FirstMax(Tail(significant_projects),
                         [p \in DOMAIN project_hours |-> TotalHours(project_hours[p])],
                         Head(significant_projects))
       ELSE UNCHANGED largest_project
    /\ pc' = "done"
    /\ UNCHANGED <<cfg, events, project_counts, project_order,
                   significant_projects, todo, project_name, dates_todo,
                   timestamps, sessions, daily_hours, project_hours,
                   project_sessions, project_totals, sorted_projects, dt,
                   rounded_dt, merged_once, merged_twice>>
    /\ UNCHANGED <<load_vars, name_vars, scan_vars>>

Next ==
    \/ CountActivities
    \/ NextProject
    \/ BuildDay
    \/ StoreProject
    \/ Return
    \/ PrintProjectSummary
    \/ SelectLargestProject

Spec == Init /\ [][Next]_vars

----------------------------------------------------------------------------
(* round_to_quarter_hour and a single-event day, at one-second resolution *)

\* sub-second parts tried with every second of the day
SubSeconds == {0, 1, 999}

InitRound ==
    /\ pc = "call"
    /\ cfg = DefaultConfig
    /\ events = <<>>
    /\ sessions = <<>>
    /\ \E sec \in 0..(SecondsPerDay - 1), ms \in SubSeconds :
           dt = sec * SecondMs + ms
    /\ Idle
    /\ IdleLoad
    /\ IdleNames
    /\ IdleScan

\* rounded_dt = round_to_quarter_hour(dt)
RoundCall ==
    /\ pc = "call"
    /\ rounded_dt' = round_to_quarter_hour(dt)
    /\ pc' = "rounded"
    /\ UNCHANGED <<cfg, events, project_counts, project_order,
                   significant_projects, todo, project_name, dates_todo,
                   timestamps, sessions, daily_hours, project_hours,
                   project_sessions, project_totals, sorted_projects,
                   largest_project, dt, merged_once, merged_twice>>
    /\ UNCHANGED <<load_vars, name_vars, scan_vars>>

\* the loop body of line 222 for a date whose only event is at dt
SingleEventDay ==
    /\ pc = "rounded"
    /\ LET built == BuildGroup(<<dt>>, DateOf(dt), <<>>, EmptyMap, cfg)
       IN  /\ timestamps' = <<dt>>
           /\ sessions' = built.sessions
           /\ daily_hours' = built.daily_hours
    /\ pc' = "built"
    /\ UNCHANGED <<cfg, events, project_counts, project_order,
                   significant_projects, todo, project_name, dates_todo,
                   project_hours, project_sessions, project_totals,
                   sorted_projects, largest_project, dt, rounded_dt,
                   merged_once, merged_twice>>
    /\ UNCHANGED <<load_vars, name_vars, scan_vars>>

NextRound ==
    \/ RoundCall
    \/ SingleEventDay

SpecRound == InitRound /\ [][NextRound]_vars

----------------------------------------------------------------------------
(* merge_overlapping_sessions on its own *)

MaxSessions == 3

\* quarter hours from 23:15 of day 0 to 00:30 of day 1
GridTimes == {23 * HourMs + q * QuarterMs : q \in 1..6}

GridSessions ==
    {FinalSession([start_dt |-> a, end_dt |-> b]) :
        <<a, b>> \in {x \in GridTimes \X GridTimes : x[1] <= x[2]}}

InitMerge ==
    /\ pc = "merge"
    /\ cfg = DefaultConfig
    /\ events = <<>>
    /\ sessions \in UNION {[1..n -> GridSessions] : n \in 0..MaxSessions}
    /\ dt = NoValue
    /\ Idle
    /\ IdleLoad
    /\ IdleNames
    /\ IdleScan

MergeOnce ==
    /\ pc = "merge"
    /\ merged_once' = merge_overlapping_sessions(sessions)
    /\ pc' = "merged"
    /\ UNCHANGED <<cfg, events, project_counts, project_order,
                   significant_projects, todo, project_name, dates_todo,
                   timestamps, sessions, daily_hours, project_hours,
                   project_sessions, project_totals, sorted_projects,
                   largest_project, dt, rounded_dt, merged_twice>>
    /\ UNCHANGED <<load_vars, name_vars, scan_vars>>

MergeAgain ==
    /\ pc = "merged"
    /\ merged_twice' = merge_overlapping_sessions(merged_once)
    /\ pc' = "remerged"
    /\ UNCHANGED <<cfg, events, project_counts, project_order,
                   significant_projects, todo, project_name, dates_todo,
                   timestamps, sessions, daily_hours, project_hours,
                   project_sessions, project_totals, sorted_projects,
                   largest_project, dt, rounded_dt, merged_once>>
    /\ UNCHANGED <<load_vars, name_vars, scan_vars>>

NextMerge ==
    \/ MergeOnce
    \/ MergeAgain

SpecMerge == InitMerge /\ [][NextMerge]_vars

----------------------------------------------------------------------------
(* merge_overlapping_sessions, one iteration of its loop at a time *)

InitScan ==
    /\ pc = "scan_start"
    /\ cfg = DefaultConfig
    /\ events = <<>>
    /\ sessions \in UNION {[1..n -> GridSessions] : n \in 0..MaxSessions}
    /\ dt = NoValue
    /\ Idle
    /\ IdleLoad
    /\ IdleNames
    /\ IdleScan

\* lines 348-367: the early return for an empty list; otherwise the
\* intervals, sorted by start, and the first of them as current
ScanStart ==
    /\ pc = "scan_start"
    /\ IF sessions = <<>>
       THEN /\ merged_once' = sessions
            /\ pc' = "scanned"
            /\ UNCHANGED scan_vars
       ELSE LET unsorted == [k \in 1..Len(sessions) |-> ToInterval(sessions[k])]
                by_start ==
                    SortByKey(unsorted,
                              [k \in 1..Len(sessions) |-> unsorted[k].start_dt])
            IN  /\ sorted_intervals' = by_start
                /\ current_interval' = by_start[1]
                /\ merged_intervals' = <<>>
                /\ next_index' = 2
                /\ pc' = "scanning"
                /\ UNCHANGED merged_once
    /\ UNCHANGED <<cfg, events, project_counts, project_order,
                   significant_projects, todo, project_name, dates_todo,
                   timestamps, sessions, daily_hours, project_hours,
                   project_sessions, project_totals, sorted_projects,
                   largest_project, dt, rounded_dt, merged_twice>>
    /\ UNCHANGED <<load_vars, name_vars>>

\* one iteration of the loop of lines 369-377
ScanStep ==
    /\ pc = "scanning"
    /\ next_index <= Len(sorted_intervals)
    /\ LET next_session == sorted_intervals[next_index]
       IN  IF Adjacent(current_interval, next_session)
           THEN /\ current_interval' =
                       [current_interval EXCEPT !.end_dt =
                           Max(current_interval.end_dt, next_session.end_dt)]
                /\ UNCHANGED merged_intervals
           ELSE /\ merged_intervals' = Append(merged_intervals, current_interval)
                /\ current_interval' = next_session
    /\ next_index' = next_index + 1
    /\ UNCHANGED <<pc, cfg, events, project_counts, project_order,
                   significant_projects, todo, project_name, dates_todo,
                   timestamps, sessions, daily_hours, project_hours,
                   project_sessions, project_totals, sorted_projects,
                   largest_project, dt, rounded_dt, merged_once, merged_twice,
                   sorted_intervals>>
    /\ UNCHANGED <<load_vars, name_vars>>

\* lines 379-396: the last interval is appended and the session dicts built
ScanFinish ==
    /\ pc = "scanning"
    /\ next_index > Len(sorted_intervals)
    /\ merged_intervals' = Append(merged_intervals, current_interval)
    /\ merged_once' = [k \in 1..Len(merged_intervals') |->
                          FinalSession(merged_intervals'[k])]
    /\ pc' = "scanned"
    /\ UNCHANGED <<cfg, events, project_counts, project_order,
                   significant_projects, todo, project_name, dates_todo,
                   timestamps, sessions, daily_hours, project_hours,
                   project_sessions, project_totals, sorted_projects,
                   largest_project, dt, rounded_dt, merged_twice,
                   sorted_intervals, next_index, current_interval>>
    /\ UNCHANGED <<load_vars, name_vars>>

NextScan ==
    \/ ScanStart
    \/ ScanStep
    \/ ScanFinish

SpecScan == InitScan /\ [][NextScan]_vars

----------------------------------------------------------------------------
(* extract_project_names for one row *)

\* A text is a sequence of pieces: the word "In", a space, an opening
\* bracket, a letter, a newline, and a run of 100 letters.  No piece other
\* than the ones of a pattern contains a character of "In " or " [", so
\* searching the pieces is searching the characters.
InWord == "In"
Space == " "
Bracket == "["
Letter == "a"
Newline == "\n"
LongWord == "x * 100"
Pieces == {InWord, Space, Bracket, Letter, Newline, LongWord}

\* len(piece)
Width(piece) ==
    IF piece = LongWord THEN 100 ELSE IF piece = InWord THEN 2 ELSE 1

\* len(text)
RECURSIVE Length(_)
Length(text) == IF text = <<>> THEN 0 ELSE Width(Head(text)) + Length(Tail(text))

\* 'In ' and ' ['
InPattern == <<InWord, Space>>
BracketPattern == <<Space, Bracket>>

\* text.find(pattern), counted from 1; 0 when the pattern does not occur
FindFirst(text, pattern) ==
    LET hits == {i \in 1..(Len(text) - Len(pattern) + 1) :
                    SubSeq(text, i, i + Len(pattern) - 1) = pattern}
    IN  IF hits = {} THEN 0
        ELSE CHOOSE i \in hits : \A j \in hits : i <= j

\* pattern in text
Contains(text, pattern) == FindFirst(text, pattern) # 0

\* text.split(pattern)
RECURSIVE Split(_, _)
Split(text, pattern) ==
    LET i == FindFirst(text, pattern)
    IN  IF i = 0 THEN <<text>>
        ELSE <<SubSeq(text, 1, i - 1)>>
                 \o Split(SubSeq(text, i + Len(pattern), Len(text)), pattern)

\* text.strip()
RECURSIVE Strip(_)
Strip(text) ==
    IF text = <<>> THEN text
    ELSE IF Head(text) \in {Space, Newline} THEN Strip(Tail(text))
    ELSE IF text[Len(text)] \in {Space, Newline}
         THEN Strip(SubSeq(text, 1, Len(text) - 1))
    ELSE text

\* the name "Unknown_Project" as a text
UnknownName == <<Unknown_Project>>

\* lines 105-122: the fallback on the blurb
NameFromBlurb(text) ==
    IF Contains(text, InPattern) /\ Contains(text, <<Bracket>>)
    THEN LET name == Strip(Split(Split(text, InPattern)[2], BracketPattern)[1])
         IN  IF name # <<>> /\ Length(name) < 100 /\ ~Contains(name, <<Newline>>)
             THEN name
             ELSE UnknownName
    ELSE UnknownName

\* [seg for seg in parsed_url.path.split('/') if seg]
RECURSIVE NonEmpty(_)
NonEmpty(segments) ==
    IF segments = <<>> THEN <<>>
    ELSE (IF Head(segments) = "" THEN <<>> ELSE <<Head(segments)>>)
         \o NonEmpty(Tail(segments))

\* lines 76-104: the name from a dataLink.  link.raises says whether
\* urlparse raises on it, link.path is parsed_url.path.split('/') and
\* link.parts is data_link.split('/')
NameFromLink(link) ==
    IF ~link.raises
    THEN LET path_segments == NonEmpty(link.path)
         IN  IF Len(path_segments) >= 4 THEN <<path_segments[4]>>
             ELSE IF Len(path_segments) >= 3 THEN <<path_segments[3]>>
             ELSE UnknownName
    ELSE IF Len(link.parts) > 6 THEN <<link.parts[7]>>
    ELSE UnknownName

\* str(row.get('dataLink', '')) when the field is empty and when it is
\* missing (a NaN cell)
AbsentLinks ==
    {[text |-> "", raises |-> FALSE, path |-> <<>>, parts |-> <<>>],
     [text |-> "nan", raises |-> FALSE, path |-> <<>>, parts |-> <<>>]}

\* https://www.dropbox.com/pri/get/s/P/rest, https://www.dropbox.com/pri/get/P,
\* https://www.dropbox.com/pri/get and http://[bad/1/2/3/P, on which urlparse
\* raises
UrlLinks ==
    {[text |-> "url", raises |-> FALSE,
      path |-> <<"", "pri", "get", "s", "P", "rest">>,
      parts |-> <<"https:", "", "www.dropbox.com", "pri", "get", "s", "P", "rest">>],
     [text |-> "url", raises |-> FALSE,
      path |-> <<"", "pri", "get", "P">>,
      parts |-> <<"https:", "", "www.dropbox.com", "pri", "get", "P">>],
     [text |-> "url", raises |-> FALSE,
      path |-> <<"", "pri", "get">>,
      parts |-> <<"https:", "", "www.dropbox.com", "pri", "get">>],
     [text |-> "url", raises |-> TRUE,
      path |-> <<>>,
      parts |-> <<"http:", "", "[bad", "1", "2", "3", "P">>],
     [text |-> "url", raises |-> TRUE,
      path |-> <<>>,
      parts |-> <<"http:", "", "[bad", "1", "2", "P">>]}

MaxBlurb == 6

InitNames ==
    /\ pc = "row"
    /\ cfg = DefaultConfig
    /\ events = <<>>
    /\ sessions = <<>>
    /\ dt = NoValue
    /\ Idle
    /\ IdleLoad
    /\ IdleScan
    /\ project_mapping = NoValue
    /\ \/ /\ data_link \in AbsentLinks
          /\ blurb \in UNION {[1..n -> Pieces] : n \in 0..MaxBlurb}
       \/ data_link \in UrlLinks /\ blurb = <<InWord, Space, Letter, Space, Bracket>>

\* the body of the loop of line 72 for one row
ExtractProjectName ==
    /\ pc = "row"
    /\ project_mapping' =
           IF data_link.text # "" /\ data_link.text # "nan"
           THEN NameFromLink(data_link)
           ELSE NameFromBlurb(blurb)
    /\ pc' = "named"
    /\ UNCHANGED <<cfg, events, project_counts, project_order,
                   significant_projects, todo, project_name, dates_todo,
                   timestamps, sessions, daily_hours, project_hours,
                   project_sessions, project_totals, sorted_projects,
                   largest_project, dt, rounded_dt, merged_once, merged_twice,
                   data_link, blurb>>
    /\ UNCHANGED <<load_vars, scan_vars>>

NextNames == ExtractProjectName

SpecNames == InitNames /\ [][NextNames]_vars

----------------------------------------------------------------------------
(* Reading the timestamps: lines 165-203 and 428-432 *)

\* A cell of the timestamp column is a number, kept as giga * 10^9 + rest
\* with 0 <= rest < 10^9 (an epoch in milliseconds does not fit a 32-bit
\* integer), or a text that is not a number.
Giga == 1000 * 1000 * 1000

Number(giga, rest) == [numeric |-> TRUE, giga |-> giga, rest |-> rest]
NotNumeric == [numeric |-> FALSE, giga |-> 0, rest |-> 0]

\* a > b for two numbers
Above(a, b) == a.giga > b.giga \/ (a.giga = b.giga /\ a.rest > b.rest)

\* variant: the rows from the first unparseable timestamp on are all dropped
RECURSIVE DropNa_Truncate(_)
DropNa_Truncate(frame) ==
    IF frame = <<>> \/ ~Head(frame).timestamp.numeric THEN <<>>
    ELSE <<Head(frame)>> \o DropNa_Truncate(Tail(frame))

\* lines 166-169: pd.to_numeric(errors='coerce') makes NaN of a cell that is
\* not a number, dropna removes its row
RECURSIVE DropNa(_)
DropNa(frame) ==
    IF frame = <<>> THEN <<>>
    ELSE (IF Head(frame).timestamp.numeric THEN <<Head(frame)>> ELSE <<>>)
         \o DropNa(Tail(frame))

\* df['timestamp'].max(): NaN for an empty column
RECURSIVE MaxTimestamp(_)
MaxTimestamp(frame) ==
    IF frame = <<>> THEN NotNumeric
    ELSE LET later == MaxTimestamp(Tail(frame))
         IN  IF later.numeric /\ Above(later, Head(frame).timestamp)
             THEN later
             ELSE Head(frame).timestamp

\* 1e12
UnitThreshold == Number(1000, 0)

\* variant: a maximum of exactly 1e12 already means milliseconds
DetectUnit_AtThreshold(frame) ==
    LET maximum == MaxTimestamp(frame)
    IN  IF maximum.numeric /\ ~Above(UnitThreshold, maximum) THEN "ms" ELSE "s"

\* lines 173-178: the unit chosen for the whole column; NaN > 1e12 is False
DetectUnit(frame) ==
    LET maximum == MaxTimestamp(frame)
    IN  IF maximum.numeric /\ Above(maximum, UnitThreshold) THEN "ms" ELSE "s"

\* pd.to_datetime raises OutOfBoundsDatetime above Timestamp.max, which is
\* 9223372036 s and 9223372036854 ms after the epoch
OutOfBounds(value, u) ==
    IF u = "ms" THEN Above(value, Number(9223, 372036854))
    ELSE Above(value, Number(9, 223372036))

\* pd.to_datetime(value, unit=u): whole seconds since the epoch and the
\* milliseconds within the second
ToDatetime(value, u) ==
    IF u = "ms"
    THEN [secs |-> value.giga * (Giga \div SecondMs) + value.rest \div SecondMs,
          ms |-> value.rest % SecondMs]
    ELSE [secs |-> value.giga * Giga + value.rest, ms |-> 0]

\* tz_localize('UTC').tz_convert('US/Central').tz_localize(None), lines
\* 183-186, for the dates of the inputs, which are in November 2023, when
\* US/Central is six hours behind UTC (the daylight-saving rule is not
\* modelled)
UtcOffsetSeconds == 0 - 6 * 60 * 60

\* day 0 of the local datetimes is 2023-11-14, 19675 days after 1970-01-01
DayZero == 19675

\* the local datetime, in milliseconds since 00:00 of day 0
LocalDatetime(instant) ==
    (instant.secs + UtcOffsetSeconds - DayZero * SecondsPerDay) * SecondMs
        + instant.ms

\* the epoch of a local datetime, as the cell of a file that counts in
\* milliseconds and of one that counts in seconds
EpochOf(datetime, u) ==
    LET seconds == DayZero * SecondsPerDay - UtcOffsetSeconds
                       + datetime \div SecondMs
    IN  IF u = "ms"
        THEN LET thousands == seconds % (Giga \div SecondMs)
             IN  Number(seconds \div (Giga \div SecondMs),
                        thousands * SecondMs + (datetime % SecondMs))
        ELSE Number(seconds \div Giga, seconds % Giga)

MaxRows == 3

\* lines 166-169
ReadNumeric ==
    /\ pc = "read"
    /\ df' = DropNa(csv_rows)
    /\ pc' = "convert"
    /\ UNCHANGED <<cfg, events, project_counts, project_order,
                   significant_projects, todo, project_name, dates_todo,
                   timestamps, sessions, daily_hours, project_hours,
                   project_sessions, project_totals, sorted_projects,
                   largest_project, dt, rounded_dt, merged_once, merged_twice,
                   csv_rows, unit, utc>>
    /\ UNCHANGED <<name_vars, scan_vars>>

\* lines 171-179 and 195-197: the unit is chosen, the column converted; an
\* exception of pd.to_datetime ends the run with three empty results
ConvertTimestamps ==
    /\ pc = "convert"
    /\ unit' = DetectUnit(df)
    /\ IF \E k \in 1..Len(df) : OutOfBounds(df[k].timestamp, unit')
       THEN /\ project_hours' = EmptyMap
            /\ project_sessions' = EmptyMap
            /\ project_counts' = EmptyMap
            /\ pc' = "returned"
            /\ UNCHANGED utc
       ELSE /\ utc' = [k \in 1..Len(df) |-> ToDatetime(df[k].timestamp, unit')]
            /\ pc' = "converted"
            /\ UNCHANGED <<project_hours, project_sessions, project_counts>>
    /\ UNCHANGED <<cfg, events, project_order, significant_projects, todo,
                   project_name, dates_todo, timestamps, sessions, daily_hours,
                   project_totals, sorted_projects, largest_project, dt,
                   rounded_dt, merged_once, merged_twice, csv_rows, df>>
    /\ UNCHANGED <<name_vars, scan_vars>>

\* lines 181-203: the local datetime and the project of every row
Localize ==
    /\ pc = "converted"
    /\ events' = [k \in 1..Len(df) |->
                     [project |-> df[k].project,
                      datetime |-> LocalDatetime(utc[k])]]
    /\ pc' = "start"
    /\ UNCHANGED <<cfg, project_counts, project_order,
                   significant_projects, todo, project_name, dates_todo,
                   timestamps, sessions, daily_hours, project_hours,
                   project_sessions, project_totals, sorted_projects,
                   largest_project, dt, rounded_dt, merged_once, merged_twice>>
    /\ UNCHANGED <<load_vars, name_vars, scan_vars>>

\* calculate_daily_project_hours with a project name, lines 428-432:
\* pd.to_numeric raises on a cell that is not a number, the unit is always
\* 's', and no exception is caught
LegacyConvert ==
    /\ pc = "legacy"
    /\ IF \E k \in 1..Len(csv_rows) : ~csv_rows[k].timestamp.numeric
       THEN /\ pc' = "raised"
            /\ UNCHANGED <<df, unit, utc>>
       ELSE /\ df' = csv_rows
            /\ unit' = "s"
            /\ IF \E k \in 1..Len(csv_rows) :
                      OutOfBounds(csv_rows[k].timestamp, "s")
               THEN /\ pc' = "raised"
                    /\ UNCHANGED utc
               ELSE /\ utc' = [k \in 1..Len(csv_rows) |->
                                  ToDatetime(csv_rows[k].timestamp, "s")]
                    /\ pc' = "legacy_converted"
    /\ UNCHANGED <<cfg, events, project_counts, project_order,
                   significant_projects, todo, project_name, dates_todo,
                   timestamps, sessions, daily_hours, project_hours,
                   project_sessions, project_totals, sorted_projects,
                   largest_project, dt, rounded_dt, merged_once, merged_twice,
                   csv_rows>>
    /\ UNCHANGED <<name_vars, scan_vars>>

\* cells of the timestamp column: 1700000000 (seconds), 1e12, 1e12 + 1,
\* 1700000000000 (milliseconds) and a text
EpochValues ==
    {Number(1, 700000000), Number(1000, 0), Number(1000, 1), Number(1700, 0),
     NotNumeric}

\* either entry point on a file of up to MaxRows rows
InitEpoch ==
    /\ pc \in {"read", "legacy"}
    /\ cfg = DefaultConfig
    /\ events = <<>>
    /\ sessions = <<>>
    /\ dt = NoValue
    /\ csv_rows \in UNION {[1..n -> [timestamp : EpochValues, project : {"A"}]] :
                               n \in 0..MaxRows}
    /\ df = NoValue
    /\ unit = NoValue
    /\ utc = NoValue
    /\ Idle
    /\ IdleNames
    /\ IdleScan

NextEpoch ==
    \/ ReadNumeric
    \/ ConvertTimestamps
    \/ LegacyConvert

SpecEpoch == InitEpoch /\ [][NextEpoch]_vars

\* local datetimes of the rows of a file: 21:52:30, 23:52:30 and 23:55:00
\* of day 0 and 00:10:00 of day 1
LoadTimes ==
    {Combine(0, 21 * HourMs + 52 * MinuteMs + 30 * SecondMs),
     Combine(0, 23 * HourMs + 52 * MinuteMs + 30 * SecondMs),
     Combine(0, 23 * HourMs + 55 * MinuteMs),
     Combine(1, 10 * MinuteMs)}

\* analyze_all_projects from the file on: a file that counts in milliseconds
\* or one that counts in seconds, some of its timestamp cells not numbers
InitLoad ==
    /\ pc = "read"
    /\ cfg \in Configs
    /\ events = <<>>
    /\ sessions = <<>>
    /\ dt = NoValue
    /\ \E u \in {"ms", "s"} :
           csv_rows \in UNION {[1..n -> [timestamp : {EpochOf(t, u) : t \in LoadTimes}
                                                        \cup {NotNumeric},
                                        project : {"A", "B"}]] :
                                  n \in 0..MaxRows}
    /\ df = NoValue
    /\ unit = NoValue
    /\ utc = NoValue
    /\ Idle
    /\ IdleNames
    /\ IdleScan

NextLoad ==
    \/ ReadNumeric
    \/ ConvertTimestamps
    \/ Localize
    \/ CountActivities
    \/ NextProject
    \/ BuildDay
    \/ StoreProject
    \/ Return
    \/ PrintProjectSummary

SpecLoad == InitLoad /\ [][NextLoad]_vars

----------------------------------------------------------------------------
(* analyze_all_projects on the events of one project on one date *)

MaxDayEvents == 3

\* local times of day 0: 07:22:30 (a rounding tie), 07:44, 09:00, 10:30,
\* 11:00, 11:00:00.001 (2 h and just over 2 h after 09:00), 12:00, 21:52:30
\* and 23:52:30 (ties; sessions that reach the next date)
DayTimes == {7 * HourMs + 22 * MinuteMs + 30 * SecondMs,
             7 * HourMs + 44 * MinuteMs,
             9 * HourMs,
             10 * HourMs + 30 * MinuteMs,
             11 * HourMs,
             11 * HourMs + 1,
             12 * HourMs,
             21 * HourMs + 52 * MinuteMs + 30 * SecondMs,
             23 * HourMs + 52 * MinuteMs + 30 * SecondMs}

\* the defaults, for a caller that accepts a project of one activity
OneActivityConfig == [DefaultConfig EXCEPT !.min_activities = 1]

\* a caller's settings: the defaults but min_activity_hours 0.75 and one
\* activity
FloorConfig ==
    [time_multiplier |-> 1, min_activity_hours |-> 3 * QuarterMs,
     max_session_gap_hours |-> 2 * HourMs, session_end_buffer |-> QuarterMs,
     min_activities |-> 1]

DayConfigs == {OneActivityConfig, FloorConfig, OtherConfig}

InitDay ==
    /\ pc = "start"
    /\ cfg \in DayConfigs
    /\ events \in UNION {[1..n -> [project : {"A"}, datetime : DayTimes]] :
                             n \in 1..MaxDayEvents}
    /\ sessions = <<>>
    /\ dt = NoValue
    /\ Idle
    /\ IdleLoad
    /\ IdleNames
    /\ IdleScan

NextDay ==
    \/ CountActivities
    \/ NextProject
    \/ BuildDay
    \/ StoreProject
    \/ Return
    \/ PrintProjectSummary

SpecDay == InitDay /\ [][NextDay]_vars

----------------------------------------------------------------------------
(* Properties *)

StartOf(session) == Combine(session.start_date, session.start_time)
EndOf(session) == Combine(session.end_date, session.end_time)

Range(s) == {s[k] : k \in 1..Len(s)}

Returned == pc \in {"returned", "done"}

\* the datetimes of the events of project p, in file order
TimesOf(p) == ProjectDatetimes(events, p)

\* sum of the hours of a session list
SessionHours(ss) == SumSeq([k \in 1..Len(ss) |-> ss[k].hours])

\* C1: in every project's merged session list the sessions are ordered by
\* start, no two overlap, and each session starts strictly more than 15
\* minutes after the end of the one before it.
C1_MergedSeparated ==
    \A p \in DOMAIN project_sessions :
        LET out == project_sessions[p]
        IN  \A i, j \in 1..Len(out) :
                i < j => /\ StartOf(out[i]) <= StartOf(out[j])
                         /\ EndOf(out[i]) <= StartOf(out[j])
                         /\ j = i + 1 =>
                                StartOf(out[j]) > EndOf(out[i]) + 15 * MinuteMs

\* three built sessions were merged into two
C1_Witness ==
    /\ pc = "done"
    /\ Len(sessions) = 3
    /\ project_name \in DOMAIN project_sessions
    /\ Len(project_sessions[project_name]) = 2

OnQuarterGrid(session) ==
    /\ EndOf(session) >= StartOf(session)
    /\ StartOf(session) % QuarterMs = 0
    /\ EndOf(session) % QuarterMs = 0

\* C2: every session the builder emits and every session the merger emits
\* ends no earlier than it starts and has both endpoints on an exact
\* multiple of 15 minutes.
C2_QuarterEndpoints ==
    /\ \A k \in 1..Len(sessions) : OnQuarterGrid(sessions[k])
    /\ \A p \in DOMAIN project_sessions :
           \A k \in 1..Len(project_sessions[p]) :
               OnQuarterGrid(project_sessions[p][k])

\* events off the quarter grid gave a session that crosses midnight and a
\* merged list shorter than the built one
C2_Witness ==
    /\ pc = "done"
    /\ \A k \in 1..Len(events) : events[k].datetime % QuarterMs # 0
    /\ project_name \in DOMAIN project_sessions
    /\ Len(project_sessions[project_name]) < Len(sessions)
    /\ \E k \in 1..Len(sessions) : sessions[k].start_date # sessions[k].end_date

\* the dates on which a session of some event can start
ResultDates == UNION {{DateOf(t), DateOf(t) + 1} : t \in EventTimes}

\* the value daily_hours has for a date, 0 when the date is not a key
DailyValue(dh, date) == IF date \in DOMAIN dh THEN dh[date] ELSE 0

\* C3: for every significant project and every date, the returned daily
\* hours equal the sum of the hours of the project's merged sessions that
\* start on that date (no hours for a date on which none starts).
C3_DailyFromMerged ==
    Returned =>
        \A p \in DOMAIN project_hours :
            \A date \in ResultDates :
                DailyValue(project_hours[p], date)
                    = HoursStartingOn(project_sessions[p], date)

\* C4: merging the output of the merger again returns the same list.
C4_MergeIdempotent ==
    pc = "remerged" => merged_twice = merged_once

\* a list of three sessions that the first merge reduced to two
C4_Witness ==
    /\ pc = "remerged"
    /\ Len(sessions) = 3
    /\ Len(merged_once) = 2
    /\ \E k \in 1..2 : merged_once[k] \notin Range(sessions)

\* C5: the hours recorded in every built and every merged session are the
\* length of the interval between its final endpoints.
C5_HoursFromEndpoints ==
    /\ \A k \in 1..Len(sessions) :
           sessions[k].hours = EndOf(sessions[k]) - StartOf(sessions[k])
    /\ \A p \in DOMAIN project_sessions :
           \A k \in 1..Len(project_sessions[p]) :
               project_sessions[p][k].hours
                   = EndOf(project_sessions[p][k])
                     - StartOf(project_sessions[p][k])

\* the day's events 21:52:30 and 23:52:30 have a nominal session of 2.25 h
\* that rounding shortens to 2 h, and the merger extended it
C5_Witness ==
    /\ pc = "done"
    /\ cfg = DefaultConfig
    /\ {21 * HourMs + 52 * MinuteMs + 30 * SecondMs,
        23 * HourMs + 52 * MinuteMs + 30 * SecondMs}
           \subseteq Range(TimesOf(project_name))
    /\ \E k \in 1..Len(sessions) : sessions[k].hours = 2 * HourMs
    /\ \E k \in 1..Len(project_sessions[project_name]) :
           project_sessions[project_name][k].hours > 2 * HourMs

\* C6: a project is a key of the returned daily hours and sessions exactly
\* when it has at least min_activities events and is not Unknown_Project;
\* every project with an event is still counted in project_counts.
C6_SignificantOnly ==
    Returned =>
        \A p \in Projects :
            LET count == CountOf(events, p)
                significant == count >= cfg.min_activities
                               /\ p # Unknown_Project
            IN  /\ p \in DOMAIN project_hours <=> significant
                /\ p \in DOMAIN project_sessions <=> significant
                /\ count > 0 => /\ p \in DOMAIN project_counts
                                /\ project_counts[p] = count

\* a significant project next to a counted Unknown_Project
C6_Witness ==
    /\ pc = "done"
    /\ DOMAIN project_hours # {}
    /\ Unknown_Project \in DOMAIN project_counts
    /\ Unknown_Project \notin DOMAIN project_hours

SingleEventSession ==
    /\ Len(sessions) = 1
    /\ StartOf(sessions[1]) = rounded_dt

\* C7 as stated: with the defaults a day with one event at t gives one
\* session that starts at t rounded and has 0.25 hours, for every t.
C7_SingleQuarter ==
    pc = "built" => /\ SingleEventSession
                    /\ sessions[1].hours = QuarterMs

\* t is exactly 7 min 30 s or 37 min 30 s past an hour
HalfwayToOddQuarter(t) ==
    t % HourMs \in {7 * MinuteMs + 30 * SecondMs,
                    37 * MinuteMs + 30 * SecondMs}

\* C7 amended: with the defaults a day with one event at t gives one session
\* that starts at t rounded; its hours are 0.25, except that they are 0.5
\* when t is exactly 7 min 30 s or 37 min 30 s past an hour.
C7_SingleQuarterOrHalf ==
    pc = "built" =>
        /\ SingleEventSession
        /\ sessions[1].hours =
               IF HalfwayToOddQuarter(dt) THEN 2 * QuarterMs ELSE QuarterMs

\* the event at 07:44:00 gives the session 07:45-08:00 of 0.25 h
C7_Witness ==
    /\ pc = "built"
    /\ dt = 7 * HourMs + 44 * MinuteMs
    /\ sessions = <<[start_date |-> 0,
                     start_time |-> 7 * HourMs + 45 * MinuteMs,
                     end_date |-> 0, end_time |-> 8 * HourMs,
                     hours |-> QuarterMs]>>

\* number of gaps between consecutive times of ts that exceed the threshold
GapsOver(ts, c) ==
    Cardinality({i \in 2..Len(ts) : ts[i] - ts[i - 1] > c.max_session_gap_hours})

\* the dates of project p whose group the loop of line 222 has processed
ProcessedDates(p) ==
    Range(GroupDates(TimesOf(p))) \ Range(dates_todo)

RECURSIVE ExpectedSessions(_, _, _)
ExpectedSessions(p, dates, c) ==
    IF dates = {} THEN 0
    ELSE LET date == CHOOSE d \in dates : TRUE
         IN  1 + GapsOver(SortedList(OnDate(TimesOf(p), date)), c)
             + ExpectedSessions(p, dates \ {date}, c)

\* C8: each project-day adds 1 + k sessions to the built list, k being the
\* number of consecutive gaps strictly greater than max_session_gap_hours;
\* a gap equal to the threshold does not split the session.
C8_SessionCount ==
    pc = "groups" =>
        Len(sessions) = ExpectedSessions(project_name,
                                         ProcessedDates(project_name), cfg)

\* a day with a gap above and a gap equal to the 2 h threshold: two sessions
C8_Witness ==
    /\ pc = "groups"
    /\ cfg = DefaultConfig
    /\ timestamps = <<10 * MinuteMs,
                      21 * HourMs + 52 * MinuteMs + 30 * SecondMs,
                      23 * HourMs + 52 * MinuteMs + 30 * SecondMs>>
    /\ Len(sessions) = 2

Distance(a, b) == IF a >= b THEN a - b ELSE b - a

\* C9: the result is the multiple of 15 minutes nearest to the argument,
\* the even multiple when two are equally near; it has no seconds or
\* sub-seconds, and minute 60 is minute 0 of the next hour, of the next date
\* after 23:52:30.
C9_NearestQuarter ==
    pc \in {"rounded", "built"} =>
        /\ rounded_dt % QuarterMs = 0
        /\ 2 * Distance(rounded_dt, dt) <= QuarterMs
        /\ 2 * Distance(rounded_dt, dt) = QuarterMs =>
               (rounded_dt \div QuarterMs) % 2 = 0
        /\ dt % HourMs > 52 * MinuteMs + 30 * SecondMs =>
               /\ rounded_dt = (dt \div HourMs + 1) * HourMs
               /\ dt \div HourMs = 23 => DateOf(rounded_dt) = DateOf(dt) + 1

\* 23:52:30 is a tie and is rounded to 00:00 of the next date
C9_Witness ==
    /\ pc = "rounded"
    /\ dt = 23 * HourMs + 52 * MinuteMs + 30 * SecondMs
    /\ rounded_dt = DayMs

\* C10: the total hours the aggregator computes for a project are the sum of
\* the hours of the project's merged sessions, and the project
\* calculate_daily_project_hours selects has the largest such sum.
C10_TotalFromMerged ==
    pc = "done" =>
        /\ \A p \in DOMAIN project_totals :
               project_totals[p].total_hours
                   = SessionHours(project_sessions[p])
        /\ largest_project # NoValue =>
               /\ TotalHours(project_hours[largest_project])
                      = SessionHours(project_sessions[largest_project])
               /\ \A p \in DOMAIN project_sessions :
                      SessionHours(project_sessions[p])
                          <= SessionHours(project_sessions[largest_project])

\* the dates of a daily-hours map whose value is not zero
NonzeroDates(dh) == {date \in DOMAIN dh : dh[date] # 0}

\* C11: in the summary of a project the active-day count is the number of
\* distinct dates whose daily hours are not zero; a date present in the
\* daily hours with the value 0 is not counted.
C11_ActiveDaysNonzero ==
    pc = "done" =>
        \A p \in DOMAIN project_totals :
            project_totals[p].active_days =
                Cardinality(NonzeroDates(project_hours[p]))

\* the position in the file of the first event of project p
FirstEventOf(p) ==
    CHOOSE k \in 1..Len(events) :
        /\ events[k].project = p
        /\ \A j \in 1..(k - 1) : events[j].project # p

\* C13: the ranking of print_project_summary lists every project of the
\* results once, by total hours descending, and two projects of equal total
\* hours appear in the order in which they were inserted into the results
\* (the order of their first events).
C13_RankingStable ==
    (pc = "done" /\ DOMAIN project_totals # {}) =>
        /\ Len(sorted_projects) = Cardinality(DOMAIN project_hours)
        /\ Range(sorted_projects) = DOMAIN project_hours
        /\ \A i, j \in 1..Len(sorted_projects) :
               i < j =>
                   LET first == project_totals[sorted_projects[i]].total_hours
                       second == project_totals[sorted_projects[j]].total_hours
                   IN  /\ first >= second
                       /\ first = second =>
                              FirstEventOf(sorted_projects[i])
                                  < FirstEventOf(sorted_projects[j])

\* two projects of equal, nonzero total hours have been ranked, the one
\* inserted first being "B"
C13_Witness ==
    /\ pc = "done"
    /\ sorted_projects = <<"B", "A">>
    /\ project_totals["A"].total_hours = project_totals["B"].total_hours
    /\ project_totals["A"].total_hours > 0

\* the build loop of lines 222-327 run over the dates of one list of
\* datetimes, from the session list ss and the daily hours dh
RECURSIVE BuildDates(_, _, _, _, _)
BuildDates(times, dates, ss, dh, c) ==
    IF dates = <<>> THEN [sessions |-> ss, daily_hours |-> dh]
    ELSE LET built == BuildGroup(SortedList(OnDate(times, Head(dates))),
                                 Head(dates), ss, dh, c)
         IN  BuildDates(times, Tail(dates), built.sessions, built.daily_hours, c)

\* what the events of project p alone determine: the build from an empty
\* session list and empty daily hours over p's own datetimes
OwnBuild(p) ==
    BuildDates(TimesOf(p), GroupDates(TimesOf(p)), <<>>, EmptyMap, cfg)

\* C18: the sessions and the daily hours returned for a project are a
\* function of the settings and of that project's own events only: they are
\* the merge and the daily hours of the build over the project's own
\* datetimes, whatever events the other projects have.
C18_ProjectIndependence ==
    pc = "returned" =>
        \A p \in DOMAIN project_sessions :
            LET own == OwnBuild(p)
            IN  /\ project_sessions[p] = merge_overlapping_sessions(own.sessions)
                /\ project_hours[p] = own.daily_hours

\* two projects with interleaved events have both been built and returned
C18_Witness ==
    /\ pc = "returned"
    /\ DOMAIN project_sessions = {"A", "B"}
    /\ project_sessions["A"] # <<>>
    /\ project_sessions["B"] # <<>>
    /\ Len(events) = 3
    /\ events[1].project = events[3].project
    /\ events[2].project # events[1].project

\* the only date of the run has been built and not yet stored
DayBuilt == pc = "groups" /\ dates_todo = <<>> /\ timestamps # <<>>

\* the indices of the sorted times ts at which a session opens: the first,
\* and every one that follows a gap above the threshold
Openings(ts, c) ==
    {1} \cup {i \in 2..Len(ts) : ts[i] - ts[i - 1] > c.max_session_gap_hours}

\* the k-th opening, in ascending order
Opening(ts, c, k) ==
    CHOOSE a \in Openings(ts, c) :
        Cardinality({b \in Openings(ts, c) : b < a}) = k - 1

\* the index of the last event of the session opened at index a
LastOf(ts, c, a) ==
    IF \E b \in Openings(ts, c) : b > a
    THEN (CHOOSE b \in Openings(ts, c) :
              b > a /\ \A x \in Openings(ts, c) : x > a => b <= x) - 1
    ELSE Len(ts)

\* the rounded interval the fold emits for the session opened at index a:
\* elapsed starts at 0 for the first session and at min_activity_hours for a
\* later one and grows by the gaps inside the session; the closing constant
\* is session_end_buffer for the last session and min_activity_hours for the
\* others; a rounded duration under 0.25 h is extended to 0.25 h
FoldInterval(ts, c, a) ==
    LET last == LastOf(ts, c, a)
        elapsed == (IF a = 1 THEN 0 ELSE c.min_activity_hours)
                       + (ts[last] - ts[a])
        closing == IF last = Len(ts) THEN c.session_end_buffer
                   ELSE c.min_activity_hours
        nominal_end == ts[a] + (elapsed + closing) * c.time_multiplier
        start == round_to_quarter_hour(ts[a])
        end == round_to_quarter_hour(nominal_end)
    IN  IF end - start < QuarterMs
        THEN <<start, round_to_quarter_hour(start + QuarterMs)>>
        ELSE <<start, end>>

\* C16: for a project-day of n >= 2 events the built sessions are those of
\* the fold of (start, elapsed) over the sorted times: one session per
\* opening, from the rounded opening time to the rounded nominal end
\* start + (elapsed + closing constant) * time_multiplier, floored at 0.25 h,
\* with the hours of the rounded interval.
C16_BuilderFold ==
    (DayBuilt /\ Len(timestamps) >= 2) =>
        /\ Len(sessions) = Cardinality(Openings(timestamps, cfg))
        /\ \A k \in 1..Len(sessions) :
               LET interval ==
                       FoldInterval(timestamps, cfg, Opening(timestamps, cfg, k))
               IN  /\ StartOf(sessions[k]) = interval[1]
                   /\ EndOf(sessions[k]) = interval[2]
                   /\ sessions[k].hours = Round2(interval[2] - interval[1])

\* the example of the claim: defaults, events at 09:00 and 10:30, one session
\* 09:00-10:45 of 1.75 h
C16_Witness ==
    /\ DayBuilt
    /\ cfg = OneActivityConfig
    /\ timestamps = <<9 * HourMs, 10 * HourMs + 30 * MinuteMs>>
    /\ sessions = <<[start_date |-> 0, start_time |-> 9 * HourMs,
                     end_date |-> 0,
                     end_time |-> 10 * HourMs + 45 * MinuteMs,
                     hours |-> HourMs + 3 * QuarterMs]>>

\* C17: no built session is shorter than the configured min_activity_hours
\* rounded to the quarter hour, whatever value is configured.
C17_ConfiguredFloor ==
    DayBuilt =>
        \A k \in 1..Len(sessions) :
            EndOf(sessions[k]) - StartOf(sessions[k]) >=
                RoundHalfEven(cfg.min_activity_hours, QuarterMs) * QuarterMs

\* session inner lies inside session outer
Inside(inner, outer) ==
    StartOf(outer) <= StartOf(inner) /\ EndOf(inner) <= EndOf(outer)

\* the result of the scan: every input interval lies inside exactly one
\* output session; every output start is an input start and every output
\* end an input end
Covered ==
    pc = "scanned" =>
        /\ \A i \in 1..Len(sessions) :
               Cardinality({k \in 1..Len(merged_once) :
                               Inside(sessions[i], merged_once[k])}) = 1
        /\ \A k \in 1..Len(merged_once) :
               /\ \E i \in 1..Len(sessions) :
                      StartOf(merged_once[k]) = StartOf(sessions[i])
               /\ \E i \in 1..Len(sessions) :
                      EndOf(merged_once[k]) = EndOf(sessions[i])

\* one iteration of the scan: the end of the running interval does not
\* decrease, and a session that ends no later than the running interval and
\* is merged into it leaves the interval as it was
EndKept ==
    (pc = "scanning" /\ pc' = "scanning") =>
        /\ current_interval'.end_dt >= current_interval.end_dt
        /\ LET next_session == sorted_intervals[next_index]
           IN  (/\ Adjacent(current_interval, next_session)
                /\ next_session.end_dt <= current_interval.end_dt)
                   => current_interval' = current_interval

\* C19: merge_overlapping_sessions covers its input: each input interval is
\* contained in exactly one output session, output starts are input starts
\* and output ends are input ends, and during the scan the end of the running
\* interval never decreases (a contained session leaves it unchanged).
C19_MergeCoverage == []Covered /\ [][EndKept]_vars

\* three sessions were merged into two, one input lying strictly inside the
\* output session that contains it
C19_Witness ==
    /\ pc = "scanned"
    /\ Len(sessions) = 3
    /\ Len(merged_once) = 2
    /\ \E i \in 1..3, k \in 1..2 :
           /\ StartOf(merged_once[k]) < StartOf(sessions[i])
           /\ EndOf(sessions[i]) < EndOf(merged_once[k])

\* the text after the first "In " contains " [": the pattern of the claim
FollowedBySpaceBracket(text) ==
    /\ Contains(text, InPattern)
    /\ LET after == SubSeq(text, FindFirst(text, InPattern) + Len(InPattern),
                           Len(text))
       IN  Contains(after, BracketPattern)

\* the trimmed text between the first "In " and the first " [" after it
BetweenInAndBracket(text) ==
    LET after == SubSeq(text, FindFirst(text, InPattern) + Len(InPattern),
                        Len(text))
    IN  Strip(SubSeq(after, 1, FindFirst(after, BracketPattern) - 1))

\* C15: for a row without a URL the project is the trimmed text between
\* "In " and the " [" that follows it, when that text is not empty, shorter
\* than 100 characters and without a newline; in every other case, a text
\* with "[" but no " [" after "In " included, it is Unknown_Project.
C15_BlurbFallback ==
    (pc = "named" /\ data_link \in AbsentLinks) =>
        project_mapping =
            IF FollowedBySpaceBracket(blurb)
            THEN LET name == BetweenInAndBracket(blurb)
                 IN  IF /\ name # <<>>
                        /\ Length(name) < 100
                        /\ \A k \in 1..Len(name) : name[k] # Newline
                     THEN name
                     ELSE UnknownName
            ELSE UnknownName

\* some numeric cell of the file is above 1e12
SomeAboveThreshold ==
    \E k \in 1..Len(csv_rows) :
        /\ csv_rows[k].timestamp.numeric
        /\ Above(csv_rows[k].timestamp, UnitThreshold)

\* C12: whichever entry point converts the timestamps, the unit it uses for
\* the whole column is milliseconds when the maximum timestamp is above 1e12
\* and seconds otherwise (a maximum of exactly 1e12 means seconds).
C12_UnitFromMaximum ==
    unit # NoValue => unit = IF SomeAboveThreshold THEN "ms" ELSE "s"

IsNumericRow(row) == row.timestamp.numeric

\* the rows of the file whose timestamp is a number, converted as the unit of
\* the file requires: the events of the remaining rows
RemainingEvents ==
    LET remaining == SelectSeq(csv_rows, IsNumericRow)
        file_unit == IF SomeAboveThreshold THEN "ms" ELSE "s"
    IN  [k \in 1..Len(remaining) |->
            [project |-> remaining[k].project,
             datetime |->
                 LocalDatetime(ToDatetime(remaining[k].timestamp, file_unit))]]

\* the build over the datetimes project p has among the remaining rows
RemainingBuild(p) ==
    LET times == ProjectDatetimes(RemainingEvents, p)
    IN  BuildDates(times, GroupDates(times), <<>>, EmptyMap, cfg)

====
